---- MODULE Spec2Model ----
(***************************************************************************)
(* Clock-tree configuration and GPIO pin drivers of the LPC11Uxx HAL       *)
(* (src/src/clocks.rs, src/src/gpio.rs).                                   *)
(*                                                                         *)
(* The module models the ClockConfig value a caller builds (presets,       *)
(* struct literals over the public fields, and the consuming builder       *)
(* methods enable_usb_fs / enable_ssp0), the frequency derivation methods  *)
(* and the PLL parameter solver PllConfig::calculate /                     *)
(* calculate_with_divider.                                                 *)
(* The runtime sequencer (apply), of which the source declares only the    *)
(* failure kinds (ClockError), follows the design document's section 4.4;  *)
(* so does the publication of the applied frequencies into the CLOCKS      *)
(* cache, of which the source declares only the slots.                     *)
(* The GPIO part models one pin's IOCON register, direction bit and output *)
(* latch under the Flex / Input / Output drivers.                          *)
(*                                                                         *)
(* Encoding.  Option<T>: None is <<>>, Some(v) is <<v>>.  A function that  *)
(* can panic (expect / unwrap / todo! / division by zero) yields Panic     *)
(* (<<>>) or Ret(v) (<<v>>).  u8 casts are taken modulo 256.  All kHz      *)
(* inputs of the model stay far below 2^31, so the u32 products of the     *)
(* source are computed without wrap-around here.                           *)
(***************************************************************************)
EXTENDS Integers, Sequences, FiniteSets, TLC

VARIABLES cfg, op, recv, args, ret, origin, hw, seq, io, drv, cache

vars == <<cfg, op, recv, args, ret, origin, hw, seq, io, drv, cache>>

----------------------------------------------------------------------------
(* Option and panic encodings *)

None == <<>>

Some(v) == <<v>>

IsSome(o) == o # <<>>

Unwrap(o) == o[1]

Panic == <<>>

Ret(v) == <<v>>

Val(r) == r[1]

AsU8(x) == x % 256

----------------------------------------------------------------------------
(* Bounds of the explored inputs *)

MaxCrystalSteps == 2

MaxLiteralDivider == 2

MaxInputSteps == 4

MaxTargetSteps == 12

(* Lock-bit reads apply makes per PLL before giving up. *)
PollBudget == 3

(* Program constants *)

IRC_KHZ == 12000

TARGET_KHZ == 48000

CCO_MIN_KHZ == 156000

CCO_MAX_KHZ == 320000

MAX_M == 32

MAX_P == 8

U8_MAX == 255

----------------------------------------------------------------------------
(* Input sets *)

CrystalKhz == {60, 12000, 25000, 32000} \cup {48000 * k : k \in 1..MaxCrystalSteps}

LiteralDividers == 1..MaxLiteralDivider

LiteralPlls ==
    [source : {"Irc", "Sysosc"}, m : {1, 4}, p : {2}]

Ssp0Targets == {0, 40, 1000, 12000, 100000}

SolverInputKhz == {0, 60, 100, 1000, 12000, 25000, 32000}
                    \cup {48000 * k : k \in 1..MaxInputSteps}

SolverTargetKhz == {0, 9000, 9750, 13000, 25700, 78000, 161000}
                    \cup {4000 * k : k \in 1..MaxTargetSteps}
                    \cup {48000 * k : k \in 1..MaxInputSteps}

----------------------------------------------------------------------------
(* Presets: ClockConfig::irc_12mhz and the others *)

irc_12mhz ==
    [ irc                |-> "Enabled",
      sysosc_khz         |-> None,
      wdosc              |-> None,
      mainclk            |-> [source |-> "Irc", divider |-> 1],
      sys_pll            |-> None,
      usb_pll            |-> None,
      usb_pclk           |-> None,
      ssp0_pclk_divider  |-> None,
      ssp1_pclk_divider  |-> None,
      usart_pclk_divider |-> None ]

default == irc_12mhz

irc_24mhz ==
    [ default EXCEPT
        !.mainclk = [source |-> "SysPll", divider |-> 1],
        !.sys_pll = Some([source |-> "Irc", m |-> 2, p |-> 4]) ]

irc_48mhz ==
    [ default EXCEPT
        !.mainclk = [source |-> "SysPll", divider |-> 1],
        !.sys_pll = Some([source |-> "Irc", m |-> 4, p |-> 2]) ]

crystal_oscillator(khz) ==
    IF khz = 0 THEN Panic
    ELSE Ret([ default EXCEPT
                 !.irc = "Disabled",
                 !.sysosc_khz = Some(khz),
                 !.mainclk = [source |-> "SysOsc", divider |-> 1] ])

----------------------------------------------------------------------------
(* Frequency derivation: the *_khz methods of ClockConfig *)

irc_khz(c) ==
    IF c.irc = "Disabled" THEN None ELSE Some(IRC_KHZ)

sysosc_khz(c) == c.sysosc_khz

wdosc_khz(c) == Panic

pll_khz_times_p(c, pll) ==
    IF pll = None THEN Ret(None)
    ELSE IF Unwrap(pll).source = "Irc"
         THEN IF irc_khz(c) = None THEN Panic
              ELSE Ret(Some(Unwrap(irc_khz(c)) * Unwrap(pll).p))
         ELSE IF sysosc_khz(c) = None THEN Panic
              ELSE Ret(Some(Unwrap(sysosc_khz(c)) * Unwrap(pll).p))

pll_khz(c, pll) ==
    IF pll = None THEN Ret(None)
    ELSE IF Unwrap(pll).source = "Irc"
         THEN IF irc_khz(c) = None THEN Panic
              ELSE Ret(Some(Unwrap(irc_khz(c)) * Unwrap(pll).m))
         ELSE IF sysosc_khz(c) = None THEN Panic
              ELSE Ret(Some(Unwrap(sysosc_khz(c)) * Unwrap(pll).m))

syspll_khz(c) == pll_khz(c, c.sys_pll)

usbpll_khz(c) == pll_khz(c, c.usb_pll)

mainclk_src_khz_unwrap_or_zero(c) ==
    CASE c.mainclk.source = "Irc" ->
           IF irc_khz(c) = None THEN Ret(0) ELSE Ret(Unwrap(irc_khz(c)))
      [] c.mainclk.source = "SysOsc" ->
           IF sysosc_khz(c) = None THEN Ret(0) ELSE Ret(Unwrap(sysosc_khz(c)))
      [] c.mainclk.source = "SysPll" ->
           IF syspll_khz(c) = Panic \/ Val(syspll_khz(c)) = None THEN Ret(0)
           ELSE Ret(Unwrap(Val(syspll_khz(c))))
      [] c.mainclk.source = "WdOsc" -> Panic

mainclk_src_khz(c) ==
    CASE c.mainclk.source = "Irc" ->
           IF irc_khz(c) = None THEN Panic ELSE Ret(Unwrap(irc_khz(c)))
      [] c.mainclk.source = "SysOsc" ->
           IF sysosc_khz(c) = None THEN Panic ELSE Ret(Unwrap(sysosc_khz(c)))
      [] c.mainclk.source = "SysPll" ->
           IF syspll_khz(c) = Panic \/ Val(syspll_khz(c)) = None THEN Panic
           ELSE Ret(Unwrap(Val(syspll_khz(c))))
      [] c.mainclk.source = "WdOsc" -> Panic

mainclk_is_sysosc_sourced_direct_only(c) ==
    c.mainclk.source = "SysOsc"

mainclk_is_sysosc_sourced_any_pll(c) ==
    c.mainclk.source \in {"SysOsc", "SysPll"}

mainclk_is_sysosc_sourced(c) ==
    CASE c.mainclk.source = "SysOsc" -> TRUE
      [] c.mainclk.source = "SysPll" ->
           IsSome(c.sys_pll) /\ Unwrap(c.sys_pll).source = "Sysosc"
      [] OTHER -> FALSE

mainclk_khz(c) ==
    IF mainclk_src_khz(c) = Panic THEN Panic
    ELSE Ret(Val(mainclk_src_khz(c)) \div c.mainclk.divider)

usbclk_khz(c) ==
    IF c.usb_pclk = None THEN Ret(None)
    ELSE IF Unwrap(c.usb_pclk).source = "MainClk"
         THEN IF mainclk_khz(c) = Panic THEN Panic
              ELSE Ret(Some(Val(mainclk_khz(c)) \div Unwrap(c.usb_pclk).divider))
         ELSE IF usbpll_khz(c) = Panic \/ Val(usbpll_khz(c)) = None THEN Panic
              ELSE Ret(Some(Unwrap(Val(usbpll_khz(c)))
                              \div Unwrap(c.usb_pclk).divider))

pclk_khz_from_src(c, divider) ==
    IF divider = None THEN Ret(None)
    ELSE IF mainclk_src_khz(c) = Panic THEN Panic
         ELSE Ret(Some(Val(mainclk_src_khz(c)) \div Unwrap(divider)))

pclk_khz(c, divider) ==
    IF divider = None THEN Ret(None)
    ELSE IF mainclk_khz(c) = Panic THEN Panic
         ELSE Ret(Some(Val(mainclk_khz(c)) \div Unwrap(divider)))

ssp0_pclk_khz(c) == pclk_khz(c, c.ssp0_pclk_divider)

ssp1_pclk_khz(c) == pclk_khz(c, c.ssp1_pclk_divider)

usart_pclk_khz(c) == pclk_khz(c, c.usart_pclk_divider)

----------------------------------------------------------------------------
(* PLL parameter solver: PllConfig::calculate and calculate_with_divider *)

calculate_rejects_input_ge(input_khz, target_khz) == input_khz >= target_khz

calculate_rejects_input(input_khz, target_khz) == input_khz > target_khz

calculate_m(input_khz, target_khz) == AsU8(target_khz \div input_khz)

cco_in_band(cco) == CCO_MIN_KHZ <= cco /\ cco <= CCO_MAX_KHZ

RECURSIVE calculate_loop_descending(_, _, _, _)
calculate_loop_descending(source, m, target_khz, p) ==
    LET q == MAX_P \div p
    IN  IF p <= MAX_P
        THEN IF cco_in_band(2 * q * target_khz)
             THEN Some([source |-> source, m |-> m, p |-> q])
             ELSE calculate_loop_descending(source, m, target_khz, AsU8(p * 2))
        ELSE None

RECURSIVE calculate_loop_cco_without_factor(_, _, _, _)
calculate_loop_cco_without_factor(source, m, target_khz, p) ==
    IF p <= MAX_P
    THEN IF cco_in_band(p * target_khz)
         THEN Some([source |-> source, m |-> m, p |-> p])
         ELSE calculate_loop_cco_without_factor(source, m, target_khz,
                                                AsU8(p * 2))
    ELSE None

RECURSIVE calculate_loop_below_max_p(_, _, _, _)
calculate_loop_below_max_p(source, m, target_khz, p) ==
    IF p < MAX_P
    THEN IF cco_in_band(2 * p * target_khz)
         THEN Some([source |-> source, m |-> m, p |-> p])
         ELSE calculate_loop_below_max_p(source, m, target_khz, AsU8(p * 2))
    ELSE None

RECURSIVE calculate_loop(_, _, _, _)
calculate_loop(source, m, target_khz, p) ==
    IF p <= MAX_P
    THEN IF cco_in_band(2 * p * target_khz)
         THEN Some([source |-> source, m |-> m, p |-> p])
         ELSE calculate_loop(source, m, target_khz, AsU8(p * 2))
    ELSE None

calculate(source, input_khz, target_khz) ==
    IF calculate_rejects_input(input_khz, target_khz) THEN Ret(None)
    ELSE IF input_khz = 0 THEN Panic
    ELSE IF target_khz % input_khz # 0
            \/ calculate_m(input_khz, target_khz) = 0
            \/ calculate_m(input_khz, target_khz) > MAX_M
         THEN Ret(None)
         ELSE Ret(calculate_loop(source, calculate_m(input_khz, target_khz),
                                 target_khz, 1))

(* One iteration of the search loop with output divider div: the result of *)
(* the early return, or Ret(None) when the loop goes on to the next div.    *)
calculate_with_divider_attempt(source, input_khz, target_khz, div) ==
    LET scaled == target_khz * div
        found  == calculate(source, input_khz, scaled)
    IN  IF input_khz <= scaled
        THEN IF found = Panic THEN Panic
             ELSE IF IsSome(Val(found))
                  THEN Ret(Some(<<Unwrap(Val(found)), div>>))
                  ELSE Ret(None)
        ELSE Ret(None)

(* The loop over div = lo, lo + 1, ..., hi in that order, stopping at the   *)
(* first iteration that returns or panics.  The range is split in halves to *)
(* keep the evaluation depth logarithmic; the order of attempts is the      *)
(* loop's.                                                                  *)
RECURSIVE calculate_with_divider_loop(_, _, _, _, _)
calculate_with_divider_loop(source, input_khz, target_khz, lo, hi) ==
    IF lo = hi
    THEN calculate_with_divider_attempt(source, input_khz, target_khz, lo)
    ELSE LET mid   == (lo + hi) \div 2
             first == calculate_with_divider_loop(source, input_khz,
                                                  target_khz, lo, mid)
         IN  IF first = Panic \/ IsSome(Val(first)) THEN first
             ELSE calculate_with_divider_loop(source, input_khz, target_khz,
                                              mid + 1, hi)

calculate_with_divider_from_two(source, input_khz, target_khz) ==
    calculate_with_divider_loop(source, input_khz, target_khz, 2, U8_MAX)

calculate_with_divider(source, input_khz, target_khz) ==
    calculate_with_divider_loop(source, input_khz, target_khz, 1, U8_MAX)

----------------------------------------------------------------------------
(* Builder transformations: enable_usb_fs and enable_ssp0 *)

(* First branch of enable_usb_fs: divide the main clock directly. *)
usb_fs_direct_keeps_pll(c, quot) ==
    IF AsU8(quot) = 0 THEN Panic
    ELSE Ret([ c EXCEPT
                 !.usb_pclk = Some([divider |-> AsU8(quot),
                                    source  |-> "MainClk"]) ])

usb_fs_direct(c, quot) ==
    IF AsU8(quot) = 0 THEN Panic
    ELSE Ret([ c EXCEPT
                 !.usb_pll  = None,
                 !.usb_pclk = Some([divider |-> AsU8(quot),
                                    source  |-> "MainClk"]) ])

(* Second branch of enable_usb_fs: a USB PLL fed by the system oscillator, *)
(* and the final panic when that is not possible.                          *)
usb_fs_pll(c) ==
    LET pll == calculate_with_divider("Sysosc", Unwrap(sysosc_khz(c)),
                                      TARGET_KHZ)
    IN  IF IsSome(sysosc_khz(c)) /\ pll # Panic /\ IsSome(Val(pll))
        THEN Ret([ c EXCEPT
                     !.usb_pll  = Some(Unwrap(Val(pll))[1]),
                     !.usb_pclk = Some([divider |-> Unwrap(Val(pll))[2],
                                        source  |-> "UsbPll"]) ])
        ELSE Panic

enable_usb_fs_pll_first(c) ==
    IF mainclk_src_khz(c) = Panic \/ Val(mainclk_src_khz(c)) = 0 THEN Panic
    ELSE
      LET src  == Val(mainclk_src_khz(c))
          quot == TARGET_KHZ \div src
          rem  == TARGET_KHZ % src
      IN  IF usb_fs_pll(c) # Panic THEN usb_fs_pll(c)
          ELSE IF mainclk_is_sysosc_sourced(c) /\ rem = 0 /\ quot < 256
               THEN usb_fs_direct(c, quot)
               ELSE Panic

enable_usb_fs(c) ==
    IF mainclk_src_khz(c) = Panic \/ Val(mainclk_src_khz(c)) = 0 THEN Panic
    ELSE
      LET src  == Val(mainclk_src_khz(c))
          quot == TARGET_KHZ \div src
          rem  == TARGET_KHZ % src
      IN  IF mainclk_is_sysosc_sourced(c) /\ rem = 0 /\ quot < 256
          THEN usb_fs_direct(c, quot)
          ELSE usb_fs_pll(c)

enable_ssp0_sets_both_ssp(c, target_khz) ==
    IF mainclk_khz(c) = Panic THEN Panic
    ELSE IF Val(mainclk_khz(c)) < target_khz THEN Panic
    ELSE IF target_khz = 0 THEN Panic
    ELSE IF AsU8(Val(mainclk_khz(c)) \div target_khz) = 0 THEN Panic
    ELSE Ret([ c EXCEPT
                 !.ssp0_pclk_divider =
                     Some(AsU8(Val(mainclk_khz(c)) \div target_khz)),
                 !.ssp1_pclk_divider =
                     Some(AsU8(Val(mainclk_khz(c)) \div target_khz)) ])

enable_ssp0(c, target_khz) ==
    IF mainclk_khz(c) = Panic THEN Panic
    ELSE IF Val(mainclk_khz(c)) < target_khz THEN Panic
    ELSE IF target_khz = 0 THEN Panic
    ELSE IF AsU8(Val(mainclk_khz(c)) \div target_khz) = 0 THEN Panic
    ELSE Ret([ c EXCEPT
                 !.ssp0_pclk_divider =
                     Some(AsU8(Val(mainclk_khz(c)) \div target_khz)) ])

----------------------------------------------------------------------------
(* Struct literals over the public fields of ClockConfig *)

LiteralConfigs ==
    [ irc                : {"Enabled", "Disabled"},
      sysosc_khz         : {None} \cup {Some(k) : k \in CrystalKhz},
      wdosc              : {None, Some([divider |-> 1, analog_clock |-> 600])},
      mainclk            : [source : {"Irc", "SysOsc", "WdOsc", "SysPll"},
                            divider : LiteralDividers],
      sys_pll            : {None} \cup {Some(d) : d \in LiteralPlls},
      usb_pll            : {None, Some([source |-> "Irc", m |-> 4, p |-> 2])},
      usb_pclk           : {None, Some([divider |-> 2, source |-> "UsbPll"])},
      ssp0_pclk_divider  : {None},
      ssp1_pclk_divider  : {None, Some(2)},
      usart_pclk_divider : {None} ]

----------------------------------------------------------------------------
(* State machine of a caller building a configuration *)

----------------------------------------------------------------------------
(* GPIO pins (src/src/gpio.rs).  A pin is named by its port_pin byte       *)
(* (port << 5 | pin); io holds the IOCON fields of the pin in use, its     *)
(* direction bit and its output latch (the bit the SET register reads).    *)

(* Pins the model drives: PIO0_0, PIO0_1, PIO0_4, PIO0_5, PIO0_11,         *)
(* PIO0_16, PIO0_22, PIO1_4, PIO1_11.                                      *)
Pins == {0, 1, 4, 5, 11, 16, 22, 36, 43}

Pulls == {"None", "Up", "Down", "Repeater"}

Levels == {"Low", "High"}

Ok == <<"Ok">>

Unsupported == <<"Err", "Unsupported">>

_pin(port_pin) == port_pin % 32

_port(port_pin) == IF port_pin \div 32 = 0 THEN "Port0" ELSE "Port1"

pio_func(port_pin) ==
    IF port_pin \in {0, 10, 11, 12, 13, 14, 15} THEN 1 ELSE 0

is_i2c_pin_by_pin_number(port_pin) == _pin(port_pin) \in {4, 5}

is_i2c_pin(port_pin) == port_pin \in {4, 5}

is_adc_pin(port_pin) == port_pin \in {11, 12, 13, 14, 15, 16, 22, 23}

(* The registers of a pin after reset, and after an earlier use of the pin *)
(* by a peripheral function (I2C bus, analog input, ...).                  *)
PinAfterReset(port_pin) ==
    [ port_pin |-> port_pin,
      func     |-> 0,
      admode   |-> "DIGITAL",
      i2cmode  |-> "I2C",
      mode     |-> "PULL_UP",
      hys      |-> FALSE,
      inv      |-> FALSE,
      filter   |-> FALSE,
      od       |-> FALSE,
      dir      |-> FALSE,
      set      |-> FALSE ]

PinAfterPeripheralUse(port_pin) ==
    [ PinAfterReset(port_pin) EXCEPT
        !.func    = 1 - pio_func(port_pin),
        !.admode  = "ANALOG",
        !.i2cmode = "FAST_PLUS",
        !.mode    = "FLOATING" ]

PinStates ==
    { [r EXCEPT !.dir = d, !.set = s] :
        r \in { PinAfterReset(p) : p \in Pins }
              \cup { PinAfterPeripheralUse(p) : p \in Pins },
        d \in BOOLEAN, s \in BOOLEAN }

(* The IOCON fields of a pin. *)
Iocon(r) ==
    [ func    |-> r.func,
      admode  |-> r.admode,
      i2cmode |-> r.i2cmode,
      mode    |-> r.mode,
      hys     |-> r.hys,
      inv     |-> r.inv,
      filter  |-> r.filter,
      od      |-> r.od ]

(* Flex::new: select the GPIO function of the pin. *)
flex_new(r) ==
    [ r EXCEPT
        !.func    = pio_func(r.port_pin),
        !.admode  = IF is_adc_pin(r.port_pin) THEN "DIGITAL" ELSE @,
        !.i2cmode = IF is_i2c_pin(r.port_pin) THEN "PIO" ELSE @ ]

(* The setters yield their Result and the registers they leave. *)
Done(result, r) == [result |-> result, io |-> r]

pull_mode(pull) ==
    CASE pull = "None"     -> "FLOATING"
      [] pull = "Up"       -> "PULL_UP"
      [] pull = "Down"     -> "PULL_DOWN"
      [] pull = "Repeater" -> "REPEATER_MODE"

set_pull(r, pull) ==
    IF is_i2c_pin(r.port_pin) /\ pull # "None" THEN Done(Unsupported, r)
    ELSE Done(Ok, [r EXCEPT !.mode = pull_mode(pull)])

set_hysteresis(r, enable) ==
    IF is_i2c_pin(r.port_pin) THEN Done(Unsupported, r)
    ELSE Done(Ok, [r EXCEPT !.hys = enable])

set_input_inversion(r, invert) ==
    IF is_i2c_pin(r.port_pin) THEN Done(Unsupported, r)
    ELSE Done(Ok, [r EXCEPT !.inv = invert])

set_glitch_filtering(r, filter) ==
    IF ~is_adc_pin(r.port_pin) THEN Done(Unsupported, r)
    ELSE Done(Ok, [r EXCEPT !.filter = filter])

set_open_drain(r, od) ==
    IF is_i2c_pin(r.port_pin)
    THEN IF od THEN Done(Ok, r) ELSE Done(Unsupported, r)
    ELSE Done(Ok, [r EXCEPT !.od = od])

set_dir(r, dir) == [r EXCEPT !.dir = dir]

set_low(r) == [r EXCEPT !.set = FALSE]

set_high(r) == [r EXCEPT !.set = TRUE]

(* Input::new: Flex::new, then set_pull (the ? returns its error), then    *)
(* set_as_input.                                                           *)
input_new(r, pull) ==
    LET pulled == set_pull(flex_new(r), pull)
    IN  IF pulled.result = Unsupported THEN pulled
        ELSE Done(Ok, set_dir(pulled.io, FALSE))

(* Output::new as the register writes it makes, in program order. *)
output_new_writes_dir_first(initial_output) ==
    << "iocon", "dir", IF initial_output = "Low" THEN "clr" ELSE "set" >>

output_new_writes(initial_output) ==
    << "iocon", IF initial_output = "Low" THEN "clr" ELSE "set", "dir" >>

register_write(r, w) ==
    CASE w = "iocon" -> flex_new(r)
      [] w = "clr"   -> set_low(r)
      [] w = "set"   -> set_high(r)
      [] w = "dir"   -> set_dir(r, TRUE)

(* The caller holds no pin driver. *)
DrvIdle == [obj |-> "none", pc |-> 0]

----------------------------------------------------------------------------
(* Process-wide frequency cache (static CLOCKS): one atomic word per node, *)
(* zero until published.                                                   *)

CacheNodes ==
    << "sysosc", "wdosc", "sys_pll", "usb_pll", "mainclk", "usb_pclk",
       "ssp0_pclk", "ssp1_pclk", "usart_pclk" >>

CacheNodeSet == { CacheNodes[i] : i \in 1..Len(CacheNodes) }

CLOCKS ==
    [ slots  |-> [n \in CacheNodeSet |-> 0],
      writes |-> [n \in CacheNodeSet |-> 0],
      load   |-> <<>> ]

----------------------------------------------------------------------------
(* The clock registers after reset (the main clock runs from the IRC) and  *)
(* the runtime sequencer before apply is called.                          *)
HwReset ==
    [ sysosc_on   |-> FALSE,
      syspll_on   |-> FALSE,
      syspll_lock |-> FALSE,
      usbpll_on   |-> FALSE,
      usbpll_lock |-> FALSE,
      mainclksel  |-> "Irc",
      maindiv     |-> 1,
      usbclksel   |-> None,
      pclkdiv     |-> <<None, None, None>> ]

SeqIdle ==
    [ stage     |-> "OscillatorsOff",
      log       |-> <<>>,
      polls     |-> 0,
      published |-> 0,
      result    |-> "none" ]

InitExceptIo ==
    /\ hw = HwReset
    /\ seq = SeqIdle
    /\ drv = DrvIdle
    /\ cache = CLOCKS
    /\ cfg = default
    /\ op = "default"
    /\ recv = default
    /\ args = <<>>
    /\ ret = Ret(default)
    /\ origin = "preset"

Init == InitExceptIo /\ io = PinAfterReset(0)

(* A builder expression starts with one preset or one struct literal. *)
Construct(name, a, r, from) ==
    /\ op' = name
    /\ recv' = default
    /\ args' = a
    /\ ret' = r
    /\ cfg' = IF ret' = Panic THEN cfg ELSE Val(ret')
    /\ origin' = from
    /\ UNCHANGED <<hw, seq, io, drv, cache>>

Irc12Mhz == op = "default" /\ Construct("irc_12mhz", <<>>, Ret(irc_12mhz), "preset")

Irc24Mhz == op = "default" /\ Construct("irc_24mhz", <<>>, Ret(irc_24mhz), "preset")

Irc48Mhz == op = "default" /\ Construct("irc_48mhz", <<>>, Ret(irc_48mhz), "preset")

CrystalOscillator ==
    /\ op = "default"
    /\ \E khz \in CrystalKhz \cup {0} :
         Construct("crystal_oscillator", <<khz>>, crystal_oscillator(khz),
                   "preset")

StructLiteral ==
    /\ op = "default"
    /\ \E c \in LiteralConfigs : Construct("literal", <<>>, Ret(c), "literal")

(* The consuming builder methods apply to the value the previous call     *)
(* returned; a panic ends the expression.                                 *)
Transform(name, a, r) ==
    /\ ret # Panic
    /\ op # "apply"
    /\ op' = name
    /\ recv' = cfg
    /\ args' = a
    /\ ret' = r
    /\ cfg' = IF ret' = Panic THEN cfg ELSE Val(ret')
    /\ UNCHANGED <<origin, hw, seq, io, drv, cache>>

EnableUsbFs == Transform("enable_usb_fs", <<>>, enable_usb_fs(cfg))

EnableSsp0 ==
    \E target_khz \in Ssp0Targets :
        Transform("enable_ssp0", <<target_khz>>, enable_ssp0(cfg, target_khz))

Next ==
    \/ Irc12Mhz
    \/ Irc24Mhz
    \/ Irc48Mhz
    \/ CrystalOscillator
    \/ StructLiteral
    \/ EnableUsbFs
    \/ EnableSsp0

Spec == Init /\ [][Next]_vars

----------------------------------------------------------------------------
(* State machine of a caller of the PLL parameter solver *)

Solve(name, a, r) ==
    /\ op' = name
    /\ args' = a
    /\ ret' = r
    /\ UNCHANGED <<cfg, recv, origin, hw, seq, io, drv, cache>>

Calculate ==
    \E source \in {"Irc", "Sysosc"}, input_khz \in SolverInputKhz,
       target_khz \in SolverTargetKhz :
        Solve("calculate", <<source, input_khz, target_khz>>,
              calculate(source, input_khz, target_khz))

CalculateWithDivider ==
    \E source \in {"Irc", "Sysosc"}, input_khz \in SolverInputKhz,
       target_khz \in SolverTargetKhz :
        Solve("calculate_with_divider", <<source, input_khz, target_khz>>,
              calculate_with_divider(source, input_khz, target_khz))

SolverNext ==
    \/ Calculate
    \/ CalculateWithDivider

SolverSpec == Init /\ [][SolverNext]_vars

----------------------------------------------------------------------------
(* State machine of a caller deriving the frequencies of a configuration *)

PeripheralDividerChoices ==
    { <<None, None, None>>, <<Some(3), Some(2), Some(5)>> }

DerivableConfigs ==
    { [ irc                |-> i,
        sysosc_khz         |-> s,
        wdosc              |-> w,
        mainclk            |-> mc,
        sys_pll            |-> sp,
        usb_pll            |-> up,
        usb_pclk           |-> uc,
        ssp0_pclk_divider  |-> pd[1],
        ssp1_pclk_divider  |-> pd[2],
        usart_pclk_divider |-> pd[3] ] :
        i  \in {"Enabled", "Disabled"},
        s  \in {None} \cup {Some(k) : k \in CrystalKhz},
        w  \in {None, Some([divider |-> 1, analog_clock |-> 600])},
        mc \in [source : {"Irc", "SysOsc", "WdOsc", "SysPll"},
                divider : LiteralDividers],
        sp \in {None} \cup {Some(d) : d \in LiteralPlls},
        up \in {None, Some([source |-> "Irc", m |-> 4, p |-> 2]),
                Some([source |-> "Sysosc", m |-> 1, p |-> 2])},
        uc \in {None, Some([divider |-> 2, source |-> "UsbPll"]),
                Some([divider |-> 3, source |-> "MainClk"])},
        pd \in PeripheralDividerChoices }

DerivableLiteral ==
    /\ op = "default"
    /\ \E c \in DerivableConfigs : Construct("literal", <<>>, Ret(c), "literal")

(* Every derivation method called on the configuration at hand. *)
Derivations(c) ==
    [ irc_khz         |-> irc_khz(c),
      sysosc_khz      |-> sysosc_khz(c),
      wdosc_khz       |-> wdosc_khz(c),
      syspll_khz      |-> syspll_khz(c),
      mainclk_src_khz |-> mainclk_src_khz(c),
      mainclk_khz     |-> mainclk_khz(c),
      usbpll_khz      |-> usbpll_khz(c),
      usbclk_khz      |-> usbclk_khz(c),
      ssp0_pclk_khz   |-> ssp0_pclk_khz(c),
      ssp1_pclk_khz   |-> ssp1_pclk_khz(c),
      usart_pclk_khz  |-> usart_pclk_khz(c) ]

Derive ==
    /\ op # "derive"
    /\ ret # Panic
    /\ op' = "derive"
    /\ recv' = cfg
    /\ args' = <<>>
    /\ ret' = Ret(Derivations(cfg))
    /\ UNCHANGED <<cfg, origin, hw, seq, io, drv, cache>>

DeriveNext ==
    \/ Irc12Mhz
    \/ Irc24Mhz
    \/ Irc48Mhz
    \/ CrystalOscillator
    \/ DerivableLiteral
    \/ Derive

DeriveSpec == Init /\ [][DeriveNext]_vars

----------------------------------------------------------------------------
(* Runtime sequencer: apply programs the clock registers stage by stage   *)
(* (OscillatorsOff, OscillatorsStable, SystemPllLocked, MainClockSwitched,*)
(* UsbPllLocked, PeripheralDividersProgrammed), polling each PLL's lock   *)
(* bit a bounded number of times.  The lock bits belong to the hardware.  *)

Advance(stage) ==
    [seq EXCEPT !.stage = stage, !.log = Append(@, stage), !.polls = 0]

Fail(error) ==
    [seq EXCEPT !.stage = "Failed", !.result = error]

SeqStep(h, s) ==
    /\ op = "apply"
    /\ seq.result = "running"
    /\ hw' = h
    /\ seq' = s
    /\ UNCHANGED <<cfg, op, recv, args, ret, origin, io, drv, cache>>

(* apply(config): enable the declared oscillators and wait until stable. *)
Apply ==
    /\ op # "apply"
    /\ ret # Panic
    /\ op' = "apply"
    /\ recv' = cfg
    /\ args' = <<>>
    /\ hw' = [hw EXCEPT !.sysosc_on = (cfg.sysosc_khz # None)]
    /\ seq' = [Advance("OscillatorsStable") EXCEPT !.result = "running",
                                                     !.published = 0]
    /\ cache' = [cache EXCEPT !.writes = CLOCKS.writes]
    /\ UNCHANGED <<cfg, ret, origin, io, drv>>

StartSysPll ==
    /\ seq.stage = "OscillatorsStable"
    /\ recv.sys_pll # None
    /\ SeqStep([hw EXCEPT !.syspll_on = TRUE],
               [seq EXCEPT !.stage = "SysPllPolling", !.polls = 0])

PollSysPll ==
    /\ seq.stage = "SysPllPolling"
    /\ seq.polls < PollBudget
    /\ SeqStep(hw, IF hw.syspll_lock THEN Advance("SystemPllLocked")
                   ELSE [seq EXCEPT !.polls = @ + 1])

SysPllTimeOutAfterSwitch ==
    /\ seq.stage = "SysPllPolling"
    /\ seq.polls >= PollBudget
    /\ SeqStep([hw EXCEPT !.maindiv = recv.mainclk.divider,
                          !.mainclksel = recv.mainclk.source],
               Fail("SysPllLockTimedOut"))

SysPllTimeOut ==
    /\ seq.stage = "SysPllPolling"
    /\ seq.polls >= PollBudget
    /\ SeqStep(hw, Fail("SysPllLockTimedOut"))

SwitchMainClockBeforeLock ==
    /\ \/ seq.stage \in {"SysPllPolling", "SystemPllLocked"}
       \/ seq.stage = "OscillatorsStable" /\ recv.sys_pll = None
    /\ SeqStep([hw EXCEPT !.maindiv = recv.mainclk.divider,
                          !.mainclksel = recv.mainclk.source],
               Advance("MainClockSwitched"))

SwitchMainClock ==
    /\ \/ seq.stage = "SystemPllLocked"
       \/ seq.stage = "OscillatorsStable" /\ recv.sys_pll = None
    /\ SeqStep([hw EXCEPT !.maindiv = recv.mainclk.divider,
                          !.mainclksel = recv.mainclk.source],
               Advance("MainClockSwitched"))

StartUsbPll ==
    /\ seq.stage = "MainClockSwitched"
    /\ recv.usb_pll # None
    /\ SeqStep([hw EXCEPT !.usbpll_on = TRUE],
               [seq EXCEPT !.stage = "UsbPllPolling", !.polls = 0])

PollUsbPll ==
    /\ seq.stage = "UsbPllPolling"
    /\ seq.polls < PollBudget
    /\ IF hw.usbpll_lock
       THEN SeqStep([hw EXCEPT !.usbclksel = recv.usb_pclk],
                    Advance("UsbPllLocked"))
       ELSE SeqStep(hw, [seq EXCEPT !.polls = @ + 1])

UsbPllTimeOut ==
    /\ seq.stage = "UsbPllPolling"
    /\ seq.polls >= PollBudget
    /\ SeqStep(hw, Fail("UsbPllLockTimedOut"))

ProgramPeripheralDividers ==
    /\ \/ seq.stage = "UsbPllLocked"
       \/ seq.stage = "MainClockSwitched" /\ recv.usb_pll = None
    /\ SeqStep([hw EXCEPT !.usbclksel = recv.usb_pclk,
                          !.pclkdiv = <<recv.ssp0_pclk_divider,
                                        recv.ssp1_pclk_divider,
                                        recv.usart_pclk_divider>>],
               Advance("PeripheralDividersProgrammed"))

(* The frequency apply publishes for a node: the node's derived frequency, *)
(* 0 for a node that is not driven.                                        *)
khz_or_zero(r) ==
    IF r = Panic THEN Panic
    ELSE IF Val(r) = None THEN Ret(0) ELSE Ret(Unwrap(Val(r)))

published_khz(c, node) ==
    CASE node = "sysosc"     -> khz_or_zero(Ret(sysosc_khz(c)))
      [] node = "wdosc"      -> IF c.wdosc = None THEN Ret(0) ELSE wdosc_khz(c)
      [] node = "sys_pll"    -> khz_or_zero(syspll_khz(c))
      [] node = "usb_pll"    -> khz_or_zero(usbpll_khz(c))
      [] node = "mainclk"    -> mainclk_khz(c)
      [] node = "usb_pclk"   -> khz_or_zero(usbclk_khz(c))
      [] node = "ssp0_pclk"  -> khz_or_zero(ssp0_pclk_khz(c))
      [] node = "ssp1_pclk"  -> khz_or_zero(ssp1_pclk_khz(c))
      [] node = "usart_pclk" -> khz_or_zero(usart_pclk_khz(c))

(* A store that writes the low byte of a slot before its upper bytes. *)
PublishSlotBytewise ==
    /\ op = "apply"
    /\ seq.result = "running"
    /\ seq.stage = "PeripheralDividersProgrammed"
    /\ seq.published < Len(CacheNodes)
    /\ LET node == CacheNodes[seq.published + 1]
           khz  == published_khz(recv, node)
       IN /\ khz # Panic
          /\ IF seq.polls = 0
             THEN /\ cache' = [cache EXCEPT !.slots[node] =
                                   (@ \div 256) * 256 + (Val(khz) % 256)]
                  /\ seq' = [seq EXCEPT !.polls = 1]
             ELSE /\ cache' = [cache EXCEPT !.slots[node] = Val(khz),
                                            !.writes[node] = @ + 1]
                  /\ seq' = [seq EXCEPT
                               !.polls = 0,
                               !.published = @ + 1,
                               !.result = IF seq.published + 1 = Len(CacheNodes)
                                          THEN "Ok" ELSE @]
    /\ UNCHANGED <<cfg, op, recv, args, ret, origin, hw, io, drv>>

(* After the last stage apply stores each node's frequency in its slot of *)
(* CLOCKS, one atomic store per node, and then returns Ok.                *)
PublishSlot ==
    /\ op = "apply"
    /\ seq.result = "running"
    /\ seq.stage = "PeripheralDividersProgrammed"
    /\ seq.published < Len(CacheNodes)
    /\ LET node == CacheNodes[seq.published + 1]
           khz  == published_khz(recv, node)
       IN /\ khz # Panic
          /\ cache' = [cache EXCEPT !.slots[node] = Val(khz),
                                    !.writes[node] = @ + 1]
          /\ seq' = [seq EXCEPT
                       !.published = @ + 1,
                       !.result = IF seq.published + 1 = Len(CacheNodes)
                                  THEN "Ok" ELSE @]
    /\ UNCHANGED <<cfg, op, recv, args, ret, origin, hw, io, drv>>

(* A peripheral driver reads one node's slot with an atomic load, at any  *)
(* time, also while apply runs.                                           *)
Load ==
    /\ \E node \in CacheNodeSet :
         cache' = [cache EXCEPT !.load = <<node, cache.slots[node]>>]
    /\ UNCHANGED <<cfg, op, recv, args, ret, origin, hw, seq, io, drv>>

(* The hardware raises a lock bit some time after its PLL is enabled, or  *)
(* never does.                                                            *)
SysPllLocks ==
    /\ hw.syspll_on /\ ~hw.syspll_lock
    /\ hw' = [hw EXCEPT !.syspll_lock = TRUE]
    /\ UNCHANGED <<cfg, op, recv, args, ret, origin, seq, io, drv, cache>>

UsbPllLocks ==
    /\ hw.usbpll_on /\ ~hw.usbpll_lock
    /\ hw' = [hw EXCEPT !.usbpll_lock = TRUE]
    /\ UNCHANGED <<cfg, op, recv, args, ret, origin, seq, io, drv, cache>>

SequencerStep ==
    \/ StartSysPll
    \/ PollSysPll
    \/ SysPllTimeOut
    \/ SwitchMainClock
    \/ StartUsbPll
    \/ PollUsbPll
    \/ UsbPllTimeOut
    \/ ProgramPeripheralDividers
    \/ PublishSlot

ApplyNext ==
    \/ Irc12Mhz
    \/ Irc24Mhz
    \/ Irc48Mhz
    \/ CrystalOscillator
    \/ EnableUsbFs
    \/ EnableSsp0
    \/ Apply
    \/ SequencerStep
    \/ SysPllLocks
    \/ UsbPllLocks
    \/ Load

ApplySpec == Init /\ [][ApplyNext]_vars

(* apply runs to its end once called; the lock bits are under no obligation. *)
ApplyFairSpec == ApplySpec /\ WF_vars(SequencerStep)

----------------------------------------------------------------------------
(* State machine of a caller driving one GPIO pin: it constructs a Flex,   *)
(* an Input or an Output on the pin, calls the configuration setters, and  *)
(* drops the driver to construct another.  recv holds the registers at the *)
(* start of the call at hand.                                              *)

GpioInit == InitExceptIo /\ io \in PinStates

GpioCall(name, a, done, obj) ==
    /\ drv.pc = 0
    /\ op' = name
    /\ args' = a
    /\ recv' = io
    /\ ret' = done.result
    /\ io' = done.io
    /\ drv' = [obj |-> obj, pc |-> 0]
    /\ UNCHANGED <<cfg, origin, hw, seq, cache>>

FlexNew ==
    /\ drv.obj = "none"
    /\ GpioCall("Flex::new", <<>>, Done(Ok, flex_new(io)), "Flex")

SetPull ==
    /\ drv.obj \in {"Flex", "Input"}
    /\ \E pull \in Pulls :
         GpioCall("set_pull", <<pull>>, set_pull(io, pull), drv.obj)

SetHysteresis ==
    /\ drv.obj \in {"Flex", "Input"}
    /\ \E enable \in BOOLEAN :
         GpioCall("set_hysteresis", <<enable>>, set_hysteresis(io, enable),
                  drv.obj)

SetInputInversion ==
    /\ drv.obj \in {"Flex", "Input"}
    /\ \E invert \in BOOLEAN :
         GpioCall("set_input_inversion", <<invert>>,
                  set_input_inversion(io, invert), drv.obj)

SetGlitchFiltering ==
    /\ drv.obj \in {"Flex", "Input"}
    /\ \E filter \in BOOLEAN :
         GpioCall("set_glitch_filtering", <<filter>>,
                  set_glitch_filtering(io, filter), drv.obj)

SetOpenDrain ==
    /\ drv.obj \in {"Flex", "Output"}
    /\ \E od \in BOOLEAN :
         GpioCall("set_open_drain", <<od>>, set_open_drain(io, od), drv.obj)

InputNew ==
    /\ drv.obj = "none"
    /\ \E pull \in Pulls :
         GpioCall("Input::new", <<pull>>, input_new(io, pull),
                  IF input_new(io, pull).result = Ok THEN "Input" ELSE "none")

(* Output::new, one register write per step. *)
OutputNew ==
    /\ drv.obj = "none"
    /\ drv.pc = 0
    /\ \E initial_output \in Levels :
         /\ op' = "Output::new"
         /\ args' = <<initial_output>>
         /\ recv' = io
         /\ ret' = <<"Running">>
         /\ io' = register_write(io, output_new_writes(initial_output)[1])
         /\ drv' = [obj |-> "none", pc |-> 2]
    /\ UNCHANGED <<cfg, origin, hw, seq, cache>>

OutputNewWrite ==
    /\ drv.pc > 0
    /\ io' = register_write(io, output_new_writes(args[1])[drv.pc])
    /\ IF drv.pc < Len(output_new_writes(args[1]))
       THEN drv' = [drv EXCEPT !.pc = @ + 1] /\ ret' = ret
       ELSE drv' = [obj |-> "Output", pc |-> 0] /\ ret' = Ok
    /\ UNCHANGED <<cfg, op, recv, args, origin, hw, seq, cache>>

(* The driver goes out of scope; the registers stay as they are. *)
DropDriver ==
    /\ drv.obj # "none"
    /\ drv.pc = 0
    /\ op' = "drop"
    /\ args' = <<>>
    /\ recv' = io
    /\ ret' = Ok
    /\ drv' = DrvIdle
    /\ UNCHANGED <<cfg, origin, hw, seq, cache, io>>

GpioNext ==
    \/ FlexNew
    \/ SetPull
    \/ SetHysteresis
    \/ SetInputInversion
    \/ SetGlitchFiltering
    \/ SetOpenDrain
    \/ InputNew
    \/ OutputNew
    \/ OutputNewWrite
    \/ DropDriver

GpioSpec == GpioInit /\ [][GpioNext]_vars

----------------------------------------------------------------------------
(* Properties *)

PostDividers == {1, 2, 4, 8}

BandHolds(p, target_khz) ==
    156000 <= 2 * p * target_khz /\ 2 * p * target_khz <= 320000

CalledCalculate == op = "calculate"

Returned == ret # Panic

ReturnedSome == ret # Panic /\ Val(ret) # None

CrystalSourced(c) ==
    \/ c.mainclk.source = "SysOsc"
    \/ /\ c.mainclk.source = "SysPll"
       /\ c.sys_pll # None
       /\ Unwrap(c.sys_pll).source = "Sysosc"

(* C1: whenever enable_usb_fs returns a configuration built from a preset, *)
(* the derived USB clock usbclk_khz of the result is exactly 48,000 kHz.   *)
C1_UsbClkIs48MHz ==
    (origin = "preset" /\ op = "enable_usb_fs" /\ Returned)
        => usbclk_khz(Val(ret)) = Ret(Some(48000))

(* C2: for input_khz >= 1 and input_khz <= target_khz, a result {M, P} of  *)
(* calculate satisfies input_khz * M = target_khz.                         *)
C2_ExactMultiplication ==
    (CalledCalculate /\ args[2] >= 1 /\ args[2] <= args[3] /\ ReturnedSome)
        => args[2] * Unwrap(Val(ret)).m = args[3]

(* C3: whenever calculate returns {M, P}, P is the least element of        *)
(* {1, 2, 4, 8} with 156,000 <= 2*P*target_khz <= 320,000.                 *)
C3_LeastPostDivider ==
    (CalledCalculate /\ ReturnedSome)
        => LET p == Unwrap(Val(ret)).p
           IN  /\ p \in PostDividers
               /\ BandHolds(p, args[3])
               /\ \A q \in PostDividers : q < p => ~BandHolds(q, args[3])

(* A call of calculate that returned P = 4 although P = 8 is in band too. *)
C3_Witness ==
    /\ CalledCalculate
    /\ ReturnedSome
    /\ Unwrap(Val(ret)).p = 4
    /\ BandHolds(8, args[3])

(* C4: calculate returns nothing whenever target_khz is no exact multiple  *)
(* of input_khz, or the quotient target_khz / input_khz is 0 or above 32.  *)
C4_RejectsInexactOrOutOfRange ==
    (/\ CalledCalculate
     /\ args[2] >= 1
     /\ \/ args[3] % args[2] # 0
        \/ args[3] \div args[2] = 0
        \/ args[3] \div args[2] > 32)
        => ret = Ret(None)

(* C5: calculate returns nothing for input_khz > target_khz, and for       *)
(* input_khz = target_khz it goes on to M = 1 and the band search.         *)
C5_InputAboveTargetRejected ==
    CalledCalculate =>
        /\ args[2] > args[3] => ret = Ret(None)
        /\ (args[2] = args[3] /\ args[2] >= 1) =>
              IF \E p \in PostDividers : BandHolds(p, args[3])
              THEN /\ ReturnedSome
                   /\ Unwrap(Val(ret)).source = args[1]
                   /\ Unwrap(Val(ret)).m = 1
                   /\ BandHolds(Unwrap(Val(ret)).p, args[3])
              ELSE ret = Ret(None)

(* A call of calculate with input_khz = target_khz that returned M = 1. *)
C5_Witness ==
    /\ CalledCalculate
    /\ args[2] = args[3]
    /\ ReturnedSome
    /\ Unwrap(Val(ret)).m = 1

(* C6: enable_ssp0(target_khz) stores the divider mainclk_khz / target_khz *)
(* and fails whenever mainclk_khz < target_khz or that quotient exceeds    *)
(* 255; a returned configuration never stores another divider.             *)
C6_Ssp0DividerIsQuotient ==
    (op = "enable_ssp0" /\ mainclk_khz(recv) # Panic /\ args[1] >= 1)
        => LET mainclk == Val(mainclk_khz(recv))
               quot    == mainclk \div args[1]
           IN  IF mainclk < args[1] \/ quot > 255
               THEN ret = Panic
               ELSE Returned /\ Val(ret).ssp0_pclk_divider = Some(quot)

(* The result of enable_usb_fs divides the main clock directly. *)
TookDirectPath ==
    /\ Returned
    /\ Val(ret).usb_pll = None
    /\ Val(ret).usb_pclk # None
    /\ Unwrap(Val(ret).usb_pclk).source = "MainClk"

(* The result of enable_usb_fs divides the output of the USB PLL. *)
TookPllPath ==
    /\ Returned
    /\ Val(ret).usb_pclk # None
    /\ Unwrap(Val(ret).usb_pclk).source = "UsbPll"

(* freq_khz (Panic or Ret(kHz)) is a frequency that divides 48,000 kHz     *)
(* with remainder 0 and quotient below 256, and c is crystal-sourced.      *)
DirectCondition(c, freq_khz) ==
    /\ freq_khz # Panic
    /\ Val(freq_khz) > 0
    /\ CrystalSourced(c)
    /\ 48000 % Val(freq_khz) = 0
    /\ 48000 \div Val(freq_khz) < 256

DirectDividerIs(freq_khz) ==
    /\ freq_khz # Panic
    /\ Val(freq_khz) > 0
    /\ Unwrap(Val(ret).usb_pclk).divider = 48000 \div Val(freq_khz)

(* C7 as stated: enable_usb_fs takes the direct-division path, with USB    *)
(* divider 48,000 / mainclk_khz, exactly when the main clock is            *)
(* crystal-sourced and mainclk_khz (after the main-clock divider) divides  *)
(* 48,000 kHz with remainder 0 and quotient < 256.                         *)
C7_DirectPathOnMainClk ==
    op = "enable_usb_fs" =>
        /\ TookDirectPath <=> DirectCondition(recv, mainclk_khz(recv))
        /\ TookDirectPath => DirectDividerIs(mainclk_khz(recv))

(* C7 amended: the same with the main-clock source frequency               *)
(* mainclk_src_khz, taken before the main-clock divider.                   *)
C7_DirectPathOnMainClkSrc ==
    op = "enable_usb_fs" =>
        /\ TookDirectPath <=> DirectCondition(recv, mainclk_src_khz(recv))
        /\ TookDirectPath => DirectDividerIs(mainclk_src_khz(recv))

(* enable_usb_fs took the direct path on a configuration whose main clock  *)
(* is the crystal-fed system PLL behind a main-clock divider of 2.         *)
C7_Witness ==
    /\ op = "enable_usb_fs"
    /\ TookDirectPath
    /\ recv.mainclk = [source |-> "SysPll", divider |-> 2]
    /\ Unwrap(Val(ret).usb_pclk).divider = 1

(* C8: with no crystal frequency configured enable_usb_fs fails, also when *)
(* the main clock is 48,000 kHz already; no returned configuration has a   *)
(* USB PLL fed by the internal RC oscillator.                              *)
C8_NoCrystalNoUsb ==
    op = "enable_usb_fs" =>
        /\ recv.sysosc_khz = None => ret = Panic
        /\ Returned =>
              \/ Val(ret).usb_pll = None
              \/ Unwrap(Val(ret).usb_pll).source # "Irc"

(* enable_usb_fs failed on the irc_48mhz preset. *)
C8_Witness ==
    /\ op = "enable_usb_fs"
    /\ recv = irc_48mhz
    /\ ret = Panic

C10_DividedOutputIsTarget ==
    (op = "calculate_with_divider" /\ ReturnedSome)
        => args[2] * Unwrap(Val(ret))[1].m = args[3] * Unwrap(Val(ret))[2]

(* A PLL descriptor of configuration c is a valid one: M in [1,32], P in   *)
(* {1,2,4,8}, and the CCO frequency 2*P*(input*M) inside the band.         *)
ValidPll(c, pll) ==
    pll # None =>
        /\ Unwrap(pll).m \in 1..32
        /\ Unwrap(pll).p \in PostDividers
        /\ pll_khz(c, pll) # Panic
        /\ BandHolds(Unwrap(pll).p, Unwrap(Val(pll_khz(c, pll))))

(* C11: in every configuration reached from a preset by enable_usb_fs /    *)
(* enable_ssp0 calls that return, every present PLL descriptor has M in    *)
(* [1,32], P in {1,2,4,8} and 156,000 <= 2*P*(input*M) <= 320,000.         *)
C11_PresetPllsValid ==
    origin = "preset" => ValidPll(cfg, cfg.sys_pll) /\ ValidPll(cfg, cfg.usb_pll)

(* The frequency of the oscillator a PLL descriptor names as its input. *)
PllInputKhz(c, pll) ==
    IF Unwrap(pll).source = "Irc" THEN irc_khz(c) ELSE sysosc_khz(c)

(* Feeding the derived output of a PLL descriptor back into calculate      *)
(* gives the descriptor's own M and P.                                     *)
RoundTrips(c, pll) ==
    pll # None =>
        /\ PllInputKhz(c, pll) # None
        /\ pll_khz(c, pll) # Panic
        /\ calculate(Unwrap(pll).source, Unwrap(PllInputKhz(c, pll)),
                     Unwrap(Val(pll_khz(c, pll))))
             = Ret(Some([source |-> Unwrap(pll).source,
                         m |-> Unwrap(pll).m,
                         p |-> Unwrap(pll).p]))

(* C14: for every PLL descriptor {source, M, P} of a configuration         *)
(* produced by the presets or by enable_usb_fs, calculate(source, input    *)
(* frequency, derived PLL output frequency) returns the same M and P.      *)
C14_SolverRoundTrip ==
    origin = "preset" => RoundTrips(cfg, cfg.sys_pll) /\ RoundTrips(cfg, cfg.usb_pll)

IsPresetCall == op \in {"irc_12mhz", "irc_24mhz", "irc_48mhz", "crystal_oscillator"}

PresetMainClkKhz ==
    CASE op = "irc_12mhz" -> 12000
      [] op = "irc_24mhz" -> 24000
      [] op = "irc_48mhz" -> 48000
      [] op = "crystal_oscillator" -> args[1]

UsbFsOnCrystalPreset ==
    /\ op = "enable_usb_fs"
    /\ origin = "preset"
    /\ recv.mainclk = [source |-> "SysOsc", divider |-> 1]
    /\ recv.sysosc_khz # None

(* C18 as stated: on a crystal-preset configuration enable_usb_fs selects  *)
(* the direct-division path with no USB PLL; with a main clock of 48,000   *)
(* kHz the result has USB divider 1, source main clock, usb_pll absent.    *)
C18_CrystalPresetTakesDirectPath ==
    UsbFsOnCrystalPreset =>
        /\ TookDirectPath
        /\ Unwrap(recv.sysosc_khz) = 48000
              => Unwrap(Val(ret).usb_pclk).divider = 1

(* C18 amended: the same for crystal frequencies that divide 48,000 kHz    *)
(* with remainder 0 and quotient below 256.                                *)
C18_DividingCrystalTakesDirectPath ==
    (/\ UsbFsOnCrystalPreset
     /\ 48000 % Unwrap(recv.sysosc_khz) = 0
     /\ 48000 \div Unwrap(recv.sysosc_khz) < 256) =>
        /\ TookDirectPath
        /\ Unwrap(Val(ret).usb_pclk).divider
             = 48000 \div Unwrap(recv.sysosc_khz)
        /\ Unwrap(recv.sysosc_khz) = 48000
              => Unwrap(Val(ret).usb_pclk).divider = 1

(* enable_usb_fs on crystal_oscillator(48000) returned USB divider 1 on    *)
(* the main clock with no USB PLL.                                         *)
C18_Witness ==
    /\ UsbFsOnCrystalPreset
    /\ recv.sysosc_khz = Some(48000)
    /\ TookDirectPath
    /\ Unwrap(Val(ret).usb_pclk).divider = 1

Derived == op = "derive"

PllInputAbsent(c, pll) ==
    /\ pll # None
    /\ \/ Unwrap(pll).source = "Irc" /\ c.irc = "Disabled"
       \/ Unwrap(pll).source = "Sysosc" /\ c.sysosc_khz = None

MainClkSourceMisdeclared(c) ==
    \/ c.mainclk.source = "SysPll" /\ c.sys_pll = None
    \/ c.mainclk.source = "SysOsc" /\ c.sysosc_khz = None
    \/ c.mainclk.source = "Irc" /\ c.irc = "Disabled"

UsbClkSourceMisdeclared(c) ==
    /\ c.usb_pclk # None
    /\ Unwrap(c.usb_pclk).source = "UsbPll"
    /\ c.usb_pll = None

(* C12: deriving from a configuration with a mis-declared dependency is a
   hard failure, never a returned frequency: mainclk_src_khz panics when the
   selected main-clock source is SysPll without a descriptor, SysOsc without
   a crystal frequency, or Irc while the IRC is disabled; syspll_khz and
   usbpll_khz panic when the input oscillator of a present descriptor is
   absent or disabled; usbclk_khz panics when the USB clock selects the USB
   PLL and no USB PLL descriptor is present. *)
C12_MisdeclaredDependencyPanics ==
    Derived =>
        /\ MainClkSourceMisdeclared(recv) => Val(ret).mainclk_src_khz = Panic
        /\ PllInputAbsent(recv, recv.sys_pll) => Val(ret).syspll_khz = Panic
        /\ PllInputAbsent(recv, recv.usb_pll) => Val(ret).usbpll_khz = Panic
        /\ UsbClkSourceMisdeclared(recv) => Val(ret).usbclk_khz = Panic

C12_Witness ==
    /\ Derived
    /\ recv.mainclk.source = "SysPll" /\ recv.sys_pll = None
    /\ PllInputAbsent(recv, recv.usb_pll)
    /\ Val(ret).mainclk_src_khz = Panic
    /\ Val(ret).usbpll_khz = Panic

WellDeclared(c) ==
    /\ ~MainClkSourceMisdeclared(c)
    /\ c.mainclk.source = "WdOsc" => c.wdosc # None
    /\ ~PllInputAbsent(c, c.sys_pll)
    /\ ~PllInputAbsent(c, c.usb_pll)
    /\ ~UsbClkSourceMisdeclared(c)

DerivationNames ==
    { "irc_khz", "sysosc_khz", "wdosc_khz", "syspll_khz", "mainclk_src_khz",
      "mainclk_khz", "usbpll_khz", "usbclk_khz", "ssp0_pclk_khz",
      "ssp1_pclk_khz", "usart_pclk_khz" }

(* C13: the derivation functions are total on well-declared configurations:
   when every selected source is configured and enabled (a configured
   watchdog oscillator selected as main-clock source included), none of the
   eleven derivation functions panics. *)
C13_DerivationsTotal ==
    (Derived /\ WellDeclared(recv)) =>
        \A f \in DerivationNames : Val(ret)[f] # Panic

IsFloor(q, n, d) == q * d <= n /\ n < (q + 1) * d

DividedFrom(x, src, d) ==
    src # Panic => (x # Panic /\ IsSome(Val(x)) /\ IsFloor(Unwrap(Val(x)), Val(src), d))

PeripheralIsDivided(x, divider, mainclk) ==
    /\ (divider = None) <=> (x = Ret(None))
    /\ divider # None => DividedFrom(x, mainclk, Unwrap(divider))

UsbClkSource(c, r) ==
    IF Unwrap(c.usb_pclk).source = "MainClk" THEN r.mainclk_khz
    ELSE IF r.usbpll_khz = Panic \/ Val(r.usbpll_khz) = None THEN Panic
         ELSE Ret(Unwrap(Val(r.usbpll_khz)))

(* C15: every divided node is the truncating integer quotient of its source,
   with no remainder check: mainclk_khz is the floor of mainclk_src_khz over
   the main divider; the ssp0, ssp1 and usart clocks are the floor of
   mainclk_khz (after the main divider) over their divider; usbclk_khz is
   the floor of mainclk_khz or of usbpll_khz over its divider, according to
   its source; and a peripheral node is not driven exactly when its divider
   or selector is absent. *)
C15_DividedNodesTruncate ==
    Derived =>
        LET r == Val(ret) IN
        /\ r.mainclk_src_khz # Panic =>
              /\ r.mainclk_khz # Panic
              /\ IsFloor(Val(r.mainclk_khz), Val(r.mainclk_src_khz),
                         recv.mainclk.divider)
        /\ PeripheralIsDivided(r.ssp0_pclk_khz, recv.ssp0_pclk_divider, r.mainclk_khz)
        /\ PeripheralIsDivided(r.ssp1_pclk_khz, recv.ssp1_pclk_divider, r.mainclk_khz)
        /\ PeripheralIsDivided(r.usart_pclk_khz, recv.usart_pclk_divider, r.mainclk_khz)
        /\ (recv.usb_pclk = None) <=> (r.usbclk_khz = Ret(None))
        /\ recv.usb_pclk # None =>
              DividedFrom(r.usbclk_khz, UsbClkSource(recv, r),
                          Unwrap(recv.usb_pclk).divider)

C15_Witness ==
    /\ Derived
    /\ recv.mainclk.divider = 2
    /\ Val(ret).mainclk_src_khz = Ret(25000)
    /\ Val(ret).mainclk_khz = Ret(12500)
    /\ Val(ret).ssp0_pclk_khz = Ret(Some(4166))
    /\ Val(ret).usart_pclk_khz = Ret(Some(2500))
    /\ Val(ret).usbclk_khz = Ret(Some(4166))
    /\ Val(ret).ssp1_pclk_khz = Ret(Some(6250))

(* Sequencer properties *)

Precedes(first, second, log) ==
    \A i \in 1..Len(log) :
        log[i] = second => \E j \in 1..(i - 1) : log[j] = first

(* C19: in every execution of apply the main-clock multiplexer is written
   to select the system PLL only after the system PLL's lock bit has been
   read true; no reachable state has the main clock selecting an unlocked
   system PLL; and the peripheral dividers are programmed only after the
   main-clock switch. *)
C19_SwitchOnlyAfterLock ==
    /\ hw.mainclksel = "SysPll" =>
          /\ hw.syspll_lock
          /\ Precedes("SystemPllLocked", "MainClockSwitched", seq.log)
    /\ Precedes("MainClockSwitched", "PeripheralDividersProgrammed", seq.log)
    /\ hw.pclkdiv # HwReset.pclkdiv =>
          \E i \in 1..Len(seq.log) : seq.log[i] = "MainClockSwitched"

C19_Witness ==
    /\ seq.result = "Ok"
    /\ recv.sys_pll # None
    /\ hw.mainclksel = "SysPll"
    /\ hw.pclkdiv[1] # None
    /\ seq.log = <<"OscillatorsStable", "SystemPllLocked", "MainClockSwitched",
                   "PeripheralDividersProgrammed">>

SysPllTimedOut == seq.result = "SysPllLockTimedOut"

AbortedAtSysPll ==
    /\ seq.stage = "Failed"
    /\ seq.polls = PollBudget
    /\ seq.log = <<"OscillatorsStable">>
    /\ hw.mainclksel = HwReset.mainclksel
    /\ hw.maindiv = HwReset.maindiv
    /\ ~hw.usbpll_on
    /\ hw.usbclksel = HwReset.usbclksel
    /\ hw.pclkdiv = HwReset.pclkdiv

(* C20: if the system PLL lock bit does not become true within the poll
   budget, apply terminates instead of hanging, returns SysPllLockTimedOut,
   performs none of the remaining stages, and leaves the main-clock
   selector pointing at the source it had before apply. *)
C20_SysPllTimeOut ==
    /\ [](SysPllTimedOut => AbortedAtSysPll)
    /\ [][SysPllTimedOut => (seq' = seq /\ hw'.mainclksel = hw.mainclksel)]_vars
    /\ (seq.stage = "SysPllPolling") ~> (hw.syspll_lock \/ SysPllTimedOut)
    /\ (seq.result = "running") ~>
          (seq.result \in {"Ok", "SysPllLockTimedOut", "UsbPllLockTimedOut"})

C20_Witness ==
    /\ SysPllTimedOut
    /\ ~hw.syspll_lock
    /\ recv.mainclk.source = "SysPll"
    /\ hw.mainclksel = "Irc"
    /\ seq.polls = PollBudget

(* Solver search properties *)

CalledCalculateWithDivider == op = "calculate_with_divider"

(* calculate succeeds for the target scaled by output divider d. *)
SucceedsWith(source, input_khz, target_khz, d) ==
    /\ input_khz <= target_khz * d
    /\ calculate(source, input_khz, target_khz * d) # Panic
    /\ IsSome(Val(calculate(source, input_khz, target_khz * d)))

(* C23: calculate_with_divider is first-fit over D = 1, 2, ..., 255: a
   returned {M, P, D} has the smallest D in [1,255] for which
   input_khz <= target_khz*D and calculate(input_khz, target_khz*D)
   succeeds, {M, P} is exactly that result of calculate, and when
   calculate(input_khz, target_khz) itself succeeds the result is that pair
   with D = 1. *)
C23_FirstFitDivider ==
    (CalledCalculateWithDivider /\ Returned) =>
        /\ ReturnedSome =>
              LET pll == Unwrap(Val(ret))[1]
                  d   == Unwrap(Val(ret))[2]
              IN  /\ d \in 1..255
                  /\ args[2] <= args[3] * d
                  /\ calculate(args[1], args[2], args[3] * d) = Ret(Some(pll))
                  /\ \A e \in 1..(d - 1) :
                        ~SucceedsWith(args[1], args[2], args[3], e)
        /\ SucceedsWith(args[1], args[2], args[3], 1) =>
              ret = Ret(Some(<<Unwrap(Val(calculate(args[1], args[2], args[3]))),
                               1>>))

C23_Witness ==
    /\ CalledCalculateWithDivider
    /\ args = <<"Sysosc", 32000, 48000>>
    /\ ret = Ret(Some(<<[source |-> "Sysosc", m |-> 3, p |-> 1], 2>>))

(* C25: the solver is complete: for input_khz >= 1 and input_khz <=
   target_khz, with target_khz an exact multiple of input_khz whose quotient
   lies in [1,32], and some P in {1,2,4,8} with 156,000 <= 2*P*target_khz <=
   320,000, calculate returns a result, and the source of the result is the
   source argument. *)
C25_SolverComplete ==
    ( /\ CalledCalculate
      /\ args[2] >= 1
      /\ args[2] <= args[3]
      /\ args[3] % args[2] = 0
      /\ (args[3] \div args[2]) \in 1..32
      /\ \E p \in PostDividers : BandHolds(p, args[3]) )
        => /\ ReturnedSome
           /\ Unwrap(Val(ret)).source = args[1]

C25_Witness ==
    /\ CalledCalculate
    /\ args = <<"Sysosc", 12000, 12000>>
    /\ ret = Ret(Some([source |-> "Sysosc", m |-> 1, p |-> 8]))

(* Transformation properties *)

ConfigFields ==
    { "irc", "sysosc_khz", "wdosc", "mainclk", "sys_pll", "usb_pll",
      "usb_pclk", "ssp0_pclk_divider", "ssp1_pclk_divider",
      "usart_pclk_divider" }

UnchangedExcept(fields) ==
    \A f \in ConfigFields \ fields : Val(ret)[f] = recv[f]

(* C26: enable_usb_fs changes only usb_pll and usb_pclk, and enable_ssp0
   changes only ssp0_pclk_divider; every other field is returned unchanged,
   so mainclk_khz is the same before and after each transformation of a
   sequence. *)
C26_TransformationFrame ==
    /\ (op = "enable_usb_fs" /\ Returned) =>
          /\ UnchangedExcept({"usb_pll", "usb_pclk"})
          /\ mainclk_khz(Val(ret)) = mainclk_khz(recv)
    /\ (op = "enable_ssp0" /\ Returned) =>
          /\ UnchangedExcept({"ssp0_pclk_divider"})
          /\ mainclk_khz(Val(ret)) = mainclk_khz(recv)

C26_Witness ==
    /\ op = "enable_ssp0"
    /\ Returned
    /\ recv.usb_pll # None
    /\ recv.usb_pclk # None
    /\ recv.ssp1_pclk_divider # None
    /\ recv.mainclk.divider = 2
    /\ recv.ssp0_pclk_divider = None
    /\ Val(ret).ssp0_pclk_divider # None

WithoutUsb(c) == [c EXCEPT !.usb_pll = None, !.usb_pclk = None]

(* C27: enable_usb_fs is idempotent and independent of prior USB settings:
   its outcome (a panic, or the returned usb_pll and usb_pclk) is the one it
   has on the same configuration with no USB settings, applying it to its
   own result returns that result again, and a usb_pll configured before is
   absent from the result when the direct-division path is taken. *)
C27_UsbFsIdempotent ==
    /\ [](op = "enable_usb_fs" =>
            /\ ret = enable_usb_fs(WithoutUsb(recv))
            /\ TookDirectPath => Val(ret).usb_pll = None)
    /\ [][(op = "enable_usb_fs" /\ Returned /\ op' = "enable_usb_fs")
             => ret' = ret]_vars

C27_Witness ==
    /\ op = "enable_usb_fs"
    /\ Returned
    /\ recv = Val(ret)
    /\ recv.usb_pll # None

(* Arithmetic properties of the solver *)

CalledSolver == op \in {"calculate", "calculate_with_divider"}

FitsU32(x) == x >= 0 /\ (x \div 65536) < 65536

(* The output dividers the search of the call at hand may try. *)
TriedDividers == IF CalledCalculateWithDivider THEN 1..255 ELSE {1}

(* C28: no arithmetic fault in 32-bit unsigned arithmetic: calculate and
   calculate_with_divider never divide by zero (no call ends in a panic),
   and no product target_khz*D or 2*P*target_khz*D they form exceeds
   2^32 - 1. *)
C28_NoArithmeticFault ==
    CalledSolver =>
        /\ Returned
        /\ \A d \in TriedDividers :
              /\ FitsU32(args[3] * d)
              /\ \A p \in PostDividers : FitsU32(2 * p * args[3] * d)

(* C24: calculate_with_divider always terminates with a return value after
   at most 255 attempts, and it returns nothing exactly when no D in [1,255]
   makes calculate(input_khz, target_khz*D) succeed. *)
C24_SearchTerminates ==
    CalledCalculateWithDivider =>
        /\ Returned
        /\ ReturnedSome => Unwrap(Val(ret))[2] \in 1..255
        /\ (ret = Ret(None)) <=>
              (\A d \in 1..255 : ~SucceedsWith(args[1], args[2], args[3], d))

(* GPIO properties *)

I2cPins == {4, 5}

AdcPins == {11, 12, 13, 14, 15, 16, 22, 23}

Setters ==
    { "set_pull", "set_hysteresis", "set_input_inversion",
      "set_glitch_filtering", "set_open_drain" }

(* The configurations the I2C pins and the pins without ADC do not take. *)
UnsupportedRequest ==
    \/ /\ recv.port_pin \in I2cPins
       /\ \/ op = "set_pull" /\ args[1] # "None"
          \/ op = "set_hysteresis"
          \/ op = "set_input_inversion"
          \/ op = "set_open_drain" /\ args[1] = FALSE
    \/ op = "set_glitch_filtering" /\ recv.port_pin \notin AdcPins

(* C22: an unsupported GPIO configuration is reported as an error without
   touching hardware: on PIO0_4 and PIO0_5 set_pull with a pull other than
   None, set_hysteresis, set_input_inversion and set_open_drain(false)
   return Unsupported, and set_glitch_filtering returns Unsupported on every
   pin that is not an ADC pin; in each of these cases the IOCON register of
   the pin is as before the call; on all other pins the setters succeed. *)
C22_UnsupportedLeavesIocon ==
    op \in Setters =>
        /\ UnsupportedRequest =>
              /\ ret = Unsupported
              /\ Iocon(io) = Iocon(recv)
        /\ (op # "set_glitch_filtering" /\ recv.port_pin \notin I2cPins) =>
              ret = Ok
        /\ (op = "set_glitch_filtering" /\ recv.port_pin \in AdcPins) =>
              ret = Ok

C22_Witness ==
    /\ op = "set_pull"
    /\ recv.port_pin = 4
    /\ args = <<"Up">>
    /\ ret = Unsupported
    /\ io = recv
    /\ io.i2cmode = "PIO"

InitialLatch == args[1] = "High"

(* C29: Output::new writes the output level (set or clr register) before
   it switches the pin direction to output: at the step where the pin
   becomes an output its output latch already equals initial_output, so a
   pin that was an input never drives the opposite level during or after
   construction. *)
C29_LevelBeforeDirection ==
    /\ []((op = "Output::new" /\ ~recv.dir /\ io.dir) =>
             io.set = InitialLatch)
    /\ [][(op' = "Output::new" /\ ~io.dir /\ io'.dir) =>
             (op = "Output::new" /\ io.set = InitialLatch
                                 /\ io'.set = io.set)]_vars

C29_Witness ==
    /\ op = "Output::new"
    /\ ret = Ok
    /\ drv.obj = "Output"
    /\ args = <<"High">>
    /\ ~recv.dir /\ ~recv.set
    /\ io.dir /\ io.set

(* C30: Input::new leaves the hardware unchanged on error: when it returns
   Unsupported (an I2C pin requested with a pull other than None), neither
   the IOCON fields func, admode, i2cmode and mode of the pin nor its
   direction bit differ from their values before the call. *)
C30_InputNewErrorLeavesHardware ==
    (op = "Input::new" /\ ret = Unsupported) =>
        /\ recv.port_pin \in I2cPins
        /\ args[1] # "None"
        /\ io.func = recv.func
        /\ io.admode = recv.admode
        /\ io.i2cmode = recv.i2cmode
        /\ io.mode = recv.mode
        /\ io.dir = recv.dir

(* Frequency cache properties *)

NewKhz(node) == Val(published_khz(recv, node))

SlotIsOldOrNew(node, khz) ==
    \/ khz = CLOCKS.slots[node]
    \/ op = "apply" /\ khz = NewKhz(node)

TimedOut == seq.result \in {"SysPllLockTimedOut", "UsbPllLockTimedOut"}

(* C21: each per-node slot of the frequency cache is written exactly once
   per successful apply, with that node's derived frequency, by the single
   writer (apply itself, one node per store); an apply that fails writes no
   slot; and a reader loading a slot at any time sees either the slot's
   value from before the apply or the node's new value, never a mixture of
   the bytes of both. *)
C21_CachePublishedOncePerNode ==
    /\ [](/\ \A node \in CacheNodeSet :
               /\ cache.writes[node] <= 1
               /\ SlotIsOldOrNew(node, cache.slots[node])
               /\ cache.writes[node] = 0 =>
                     cache.slots[node] = CLOCKS.slots[node]
          /\ seq.result = "Ok" =>
                \A node \in CacheNodeSet :
                    /\ cache.writes[node] = 1
                    /\ cache.slots[node] = NewKhz(node)
          /\ (TimedOut \/ op # "apply") =>
                \A node \in CacheNodeSet : cache.writes[node] = 0
          /\ cache.load # <<>> =>
                SlotIsOldOrNew(cache.load[1], cache.load[2]))
    /\ [][cache'.slots # cache.slots =>
            /\ op = "apply" /\ op' = "apply"
            /\ seq.result = "running"
            /\ seq'.published = seq.published + 1
            /\ \E node \in CacheNodeSet :
                 /\ node = CacheNodes[seq'.published]
                 /\ cache'.writes[node] = cache.writes[node] + 1
                 /\ \A other \in CacheNodeSet \ {node} :
                      /\ cache'.slots[other] = cache.slots[other]
                      /\ cache'.writes[other] = cache.writes[other]]_vars

C21_Witness ==
    /\ seq.result = "Ok"
    /\ \A node \in CacheNodeSet : cache.writes[node] = 1
    /\ cache.slots.sysosc > 0
    /\ cache.slots.usb_pclk > 0
    /\ cache.slots.ssp0_pclk > 0
    /\ cache.slots.ssp1_pclk = 0
    /\ cache.load = <<"mainclk", CLOCKS.slots.mainclk>>
    /\ cache.slots.mainclk # cache.load[2]

====
